---- MODULE Spec2Model ----
(***************************************************************************)
(* Model of jailbox (cnily03-hive/ctf-jail-cpp): the DataBucket path       *)
(* confinement of engine/modules/context.rs, the result translation of     *)
(* engine/engine.rs, and the CLI / HTTP callers of main.rs with the        *)
(* SandboxManager of sandbox.rs.                                           *)
(*                                                                         *)
(* A path string is modelled as the sequence of its '/'-separated          *)
(* segments (what splitting the string on '/' gives), each segment a       *)
(* sequence of characters: "" is <<EMPTY>>, "/" is <<EMPTY, EMPTY>>,       *)
(* "/a/ab" is <<EMPTY, A, AB>>, "a//." is <<A, EMPTY, DOT>>.               *)
(***************************************************************************)
EXTENDS Naturals, Sequences, FiniteSets, TLC

VARIABLES
    root,       \* RuneEngine.data_directory / DataBucket.path
    mode,       \* which caller of main.rs runs the invocation
    input,      \* user_input of a check invocation
    pc,         \* position of the invocation
    lastOp,     \* the last DataBucket call of the running script and its result
    listed,     \* names returned by the last successful DataBucket.list
    fault,      \* the host fault the engine raised, or "none"
    returned,   \* the value vm.call returned
    result,     \* Result<Result<String,String>> of call_collect / call_check
    invoked,    \* vm.call was entered
    compiles,   \* number of compile_vm runs of this invocation
    cleanup,    \* what cleanup_sandbox returned in this invocation, or "none"
    sandboxes,  \* SandboxManager.sandboxes (the registered ids)
    lastCalls,  \* per sandbox id, the last SandboxManager call on it and its return
    response    \* what the caller sent back (HTTP response / CLI output)

vars == <<root, mode, input, pc, lastOp, listed, fault, returned, result,
          invoked, compiles, cleanup, sandboxes, lastCalls, response>>

----------------------------------------------------------------------------
(* Bounds *)

\* longest requested path, counted in '/'-separated segments
MaxSegs == 3

\* most entries of one directory
MaxEntries == 3

----------------------------------------------------------------------------
(* Path strings *)

EMPTY == <<>>
DOT == <<".">>
DOTDOT == <<".", ".">>
A == <<"a">>
AB == <<"a", "b">>

\* the segments requested paths are built from
Segs == {EMPTY, DOT, DOTDOT, A, AB}

RECURSIVE SeqsUpTo(_, _)
SeqsUpTo(S, n) ==
    IF n = 0 THEN {<<>>}
    ELSE LET shorter == SeqsUpTo(S, n - 1)
         IN  shorter \cup {Append(q, x) : q \in {r \in shorter : Len(r) = n - 1}, x \in S}

\* every path string of at most MaxSegs segments
Paths == SeqsUpTo(Segs, MaxSegs) \ {<<>>}

\* the string itself, character by character
RECURSIVE Flat(_)
Flat(p) ==
    IF Len(p) = 0 THEN <<>>
    ELSE IF Len(p) = 1 THEN p[1]
    ELSE p[1] \o <<"/">> \o Flat(Tail(p))

IsSeqPrefix(s, t) == Len(s) <= Len(t) /\ SubSeq(t, 1, Len(s)) = s

\* Path::has_root / Path::is_absolute on Unix: the string starts with '/'
is_absolute(p) == Len(p) >= 2 /\ p[1] = EMPTY

RootDir == [t |-> "RootDir", name |-> EMPTY]
CurDir == [t |-> "CurDir", name |-> DOT]
ParentDir == [t |-> "ParentDir", name |-> DOTDOT]
Normal(x) == [t |-> "Normal", name |-> x]

RECURSIVE BodyComponents(_)
BodyComponents(segs) ==
    IF segs = <<>> THEN <<>>
    ELSE LET s == Head(segs)
             rest == BodyComponents(Tail(segs))
         IN  IF s = EMPTY \/ s = DOT THEN rest
             ELSE IF s = DOTDOT THEN <<ParentDir>> \o rest
             ELSE <<Normal(s)>> \o rest

\* Path::components: RootDir for a leading '/', CurDir only for a leading
\* "." of a relative path, empty and inner "." segments dropped, ".."
\* kept as ParentDir
Components(p) ==
    IF is_absolute(p) THEN <<RootDir>> \o BodyComponents(Tail(p))
    ELSE IF p[1] = DOT THEN <<CurDir>> \o BodyComponents(Tail(p))
    ELSE BodyComponents(p)

\* PathBuf::push: an absolute argument replaces the buffer, otherwise it is
\* appended after a separator (none when the buffer is empty or ends in '/')
Push(buf, s) ==
    IF is_absolute(s) THEN s
    ELSE IF buf = <<EMPTY>> THEN s
    ELSE IF buf[Len(buf)] = EMPTY THEN SubSeq(buf, 1, Len(buf) - 1) \o s
    ELSE buf \o s

join(base, p) == Push(base, p)

\* Component::as_os_str
as_os_str(c) == IF c.t = "RootDir" THEN <<EMPTY, EMPTY>> ELSE <<c.name>>

\* components.iter().collect::<PathBuf>()
RECURSIVE CollectFrom(_, _)
CollectFrom(buf, cs) ==
    IF cs = <<>> THEN buf ELSE CollectFrom(Push(buf, as_os_str(Head(cs))), Tail(cs))

collect(cs) == CollectFrom(<<EMPTY>>, cs)

\* a normalisation that keeps a ".." it cannot pop
RECURSIVE KeepFrom(_, _)
KeepFrom(components, cs) ==
    IF cs = <<>> THEN components
    ELSE LET c == Head(cs)
         IN  IF c.t = "ParentDir"
             THEN KeepFrom(IF components # <<>> /\ components[Len(components)].t = "Normal"
                           THEN SubSeq(components, 1, Len(components) - 1)
                           ELSE IF components # <<>> /\ components[Len(components)].t = "RootDir"
                           THEN components
                           ELSE Append(components, c), Tail(cs))
             ELSE IF c.t = "CurDir" THEN KeepFrom(components, Tail(cs))
             ELSE KeepFrom(Append(components, c), Tail(cs))

normalize_path_keeping(p) == collect(KeepFrom(<<>>, Components(p)))

\* a normalisation whose ".." pops nothing
RECURSIVE IgnoreFrom(_, _)
IgnoreFrom(components, cs) ==
    IF cs = <<>> THEN components
    ELSE LET c == Head(cs)
         IN  IF c.t = "ParentDir" \/ c.t = "CurDir" THEN IgnoreFrom(components, Tail(cs))
             ELSE IgnoreFrom(Append(components, c), Tail(cs))

normalize_path_ignoring(p) == collect(IgnoreFrom(<<>>, Components(p)))

RECURSIVE NormalizeFrom(_, _)
NormalizeFrom(components, cs) ==
    IF cs = <<>> THEN components
    ELSE LET c == Head(cs)
         IN  IF c.t = "ParentDir"
             THEN NormalizeFrom(IF components # <<>>
                                THEN SubSeq(components, 1, Len(components) - 1)
                                ELSE components, Tail(cs))
             ELSE IF c.t = "CurDir" THEN NormalizeFrom(components, Tail(cs))
             ELSE NormalizeFrom(Append(components, c), Tail(cs))

normalize_path(p) == collect(NormalizeFrom(<<>>, Components(p)))

\* std::env::current_dir() of the process
current_dir == <<EMPTY, A>>

NoContext == <<>>

to_abs_pathbuf(target_path, context_path) ==
    LET ctx == IF context_path = NoContext THEN current_dir
               ELSE IF is_absolute(context_path) THEN context_path
               ELSE join(current_dir, context_path)
    IN  IF is_absolute(target_path) THEN normalize_path(target_path)
        ELSE normalize_path(join(ctx, target_path))

\* a starts_with that compares the raw strings
starts_with_raw(path, base) == IsSeqPrefix(Flat(base), Flat(path))

\* Path::starts_with: component by component
starts_with(path, base) == IsSeqPrefix(Components(base), Components(path))

\* a check that resolves the tested path without the bucket's directory
security_path_within_unanchored(test_path, super_path) ==
    LET super_abs == to_abs_pathbuf(super_path, NoContext)
        cur_abs == to_abs_pathbuf(test_path, NoContext)
    IN  starts_with(cur_abs, super_abs)

security_path_within(test_path, super_path) ==
    LET super_abs == to_abs_pathbuf(super_path, NoContext)
        cur_abs == to_abs_pathbuf(test_path, super_path)
    IN  starts_with(cur_abs, super_abs)

----------------------------------------------------------------------------
(* The file system the process runs on, keyed by the names from '/' down *)

FileText == <<"{", "\"", "a", "\"", ":", "1", "}">>
InnerText == <<"inner">>
SecretText == <<"secret">>

NoNode == [kind |-> "none", text |-> <<>>, readable |-> FALSE]
DirNode == [kind |-> "dir", text |-> <<>>, readable |-> TRUE]
FileNode(text) == [kind |-> "file", text |-> text, readable |-> TRUE]
\* a regular file whose bytes are not valid UTF-8
BinaryNode == [kind |-> "file", text |-> <<>>, readable |-> FALSE]

Node(key) ==
    CASE key = <<>> -> DirNode
      [] key = <<A>> -> DirNode
      [] key = <<A, A>> -> FileNode(FileText)
      [] key = <<A, AB>> -> DirNode
      [] key = <<A, AB, A>> -> FileNode(InnerText)
      [] key = <<A, AB, AB>> -> BinaryNode
      [] key = <<AB>> -> DirNode
      [] key = <<AB, A>> -> FileNode(SecretText)
      [] OTHER -> NoNode

\* a directory entry's file name (an OsString); utf8 = FALSE is a name
\* that into_string() rejects
Utf8Name(x) == [utf8 |-> TRUE, name |-> x]
RawName == [utf8 |-> FALSE, name |-> EMPTY]

\* what read_dir yields, in the order the OS gives
Entries(key) ==
    CASE key = <<>> -> <<Utf8Name(AB), Utf8Name(A)>>
      [] key = <<A>> -> <<Utf8Name(AB), RawName, Utf8Name(A)>>
      [] key = <<A, AB>> -> <<Utf8Name(A), Utf8Name(AB)>>
      [] key = <<AB>> -> <<Utf8Name(A)>>
      [] OTHER -> <<>>

Unresolved == <<<<"?">>>>

\* the kernel's walk of a path: a relative path starts at the working
\* directory, ".." of '/' is '/', every step needs a directory under it
RECURSIVE Walk(_, _)
Walk(key, segs) ==
    IF segs = <<>> \/ key = Unresolved THEN key
    ELSE LET s == Head(segs)
         IN  IF s = EMPTY /\ Len(segs) > 1 THEN Walk(key, Tail(segs))
             ELSE IF Node(key).kind # "dir" THEN Unresolved
             ELSE IF s = EMPTY \/ s = DOT THEN Walk(key, Tail(segs))
             ELSE IF s = DOTDOT
             THEN Walk(IF key = <<>> THEN key ELSE SubSeq(key, 1, Len(key) - 1), Tail(segs))
             ELSE Walk(Append(key, s), Tail(segs))

OsResolve(p) ==
    IF p = <<EMPTY>> THEN Unresolved
    ELSE IF is_absolute(p) THEN Walk(<<>>, Tail(p))
    ELSE Walk(SubSeq(current_dir, 2, Len(current_dir)), p)

OsNode(p) == LET key == OsResolve(p) IN IF key = Unresolved THEN NoNode ELSE Node(key)

\* Path::exists
exists(p) == OsNode(p).kind # "none"

\* Path::is_dir
is_dir(p) == OsNode(p).kind = "dir"

\* Path::is_file
is_file(p) == OsNode(p).kind = "file"

IoOk(text) == [ok |-> TRUE, text |-> text, kind |-> "-"]
IoErr(kind, text) == [ok |-> FALSE, text |-> text, kind |-> kind]

\* fs::read_to_string
read_to_string(p) ==
    LET n == OsNode(p)
    IN  IF n.kind = "none" THEN IoErr("NotFound", <<"No such file or directory (os error 2)">>)
        ELSE IF n.kind = "dir" THEN IoErr("IsADirectory", <<"Is a directory (os error 21)">>)
        ELSE IF ~n.readable THEN IoErr("InvalidData", <<"stream did not contain valid UTF-8">>)
        ELSE IoOk(n.text)

\* entry.file_name().into_string().unwrap_or_default()
file_name_string(e) == IF e.utf8 THEN e.name ELSE EMPTY

\* fs::read_dir(..).filter_map(Result::ok).map(..).collect()
read_dir_names(p) ==
    LET es == Entries(OsResolve(p))
    IN  [i \in 1..Len(es) |-> file_name_string(es[i])]

----------------------------------------------------------------------------
(* Rune values at the engine boundary: a payload, bare or in one arm of a  *)
(* Result                                                                  *)

StringV(text) == [t |-> "String", text |-> text, items |-> <<>>, kind |-> "-"]
VecV(items) == [t |-> "Vec", text |-> <<>>, items |-> items, kind |-> "-"]
UnitV == [t |-> "Unit", text |-> <<>>, items |-> <<>>, kind |-> "-"]
FunctionV == [t |-> "Function", text |-> <<>>, items |-> <<>>, kind |-> "-"]
IoErrorV(kind, msg) == [t |-> "IoError", text |-> msg, items |-> <<>>, kind |-> kind]
AnyhowV(msg) == [t |-> "AnyhowError", text |-> msg, items |-> <<>>, kind |-> "-"]

Bare(p) == [arm |-> "Bare", p |-> p]
OkV(p) == [arm |-> "Ok", p |-> p]
ErrV(p) == [arm |-> "Err", p |-> p]

----------------------------------------------------------------------------
(* DataBucket (context.rs) *)

file_exists(test_path, context_path) == exists(join(context_path, test_path))

\* the return statement a call left by
NotAllowed == "NotAllowed"
NotFound == "NotFound"
IOFailure == "IOFailure"
Returned == "Returned"

BucketResult(branch, abs_path, value) ==
    [branch |-> branch, abs_path |-> abs_path, value |-> value]

\* DataBucket::read
read(self_path, file_path) ==
    LET safe_file_path == normalize_path(file_path)
        abs_path == to_abs_pathbuf(safe_file_path, self_path)
        got == read_to_string(abs_path)
    IN  IF ~security_path_within(safe_file_path, self_path)
        THEN BucketResult(NotAllowed, abs_path,
                 ErrV(IoErrorV("PermissionDenied",
                     <<"Access to this path is not allowed: ">> \o Flat(file_path))))
        ELSE IF ~file_exists(safe_file_path, self_path)
        THEN BucketResult(NotFound, abs_path,
                 ErrV(IoErrorV("NotFound", <<"File not found: ">> \o Flat(file_path))))
        ELSE IF ~got.ok
        THEN BucketResult(IOFailure, abs_path,
                 ErrV(IoErrorV(got.kind,
                     <<"Failed to read file ">> \o Flat(file_path) \o <<": ">> \o got.text)))
        ELSE BucketResult(Returned, abs_path, OkV(StringV(got.text)))

\* DataBucket::list
list(self_path, dpath) ==
    LET safe_path == normalize_path(dpath)
        abs_path == to_abs_pathbuf(safe_path, self_path)
    IN  IF ~security_path_within(safe_path, self_path)
        THEN BucketResult(NotAllowed, abs_path,
                 ErrV(IoErrorV("PermissionDenied",
                     <<"Access to this path is not allowed: ">> \o Flat(dpath))))
        ELSE IF ~is_dir(abs_path)
        THEN BucketResult(NotFound, abs_path,
                 ErrV(IoErrorV("NotFound", <<"Directory not found: ">> \o Flat(dpath))))
        ELSE BucketResult(Returned, abs_path, OkV(VecV(read_dir_names(abs_path))))

----------------------------------------------------------------------------
(* RuneEngine (engine.rs) *)

RECURSIVE JsonEscape(_)
JsonEscape(text) ==
    IF text = <<>> THEN <<>>
    ELSE LET c == Head(text)
         IN  (IF c = "\"" \/ c = "\\" THEN <<"\\", c>> ELSE <<c>>) \o JsonEscape(Tail(text))

JsonString(text) == <<"\"">> \o JsonEscape(text) \o <<"\"">>

RECURSIVE JsonItems(_)
JsonItems(items) ==
    IF items = <<>> THEN <<>>
    ELSE JsonString(Head(items))
         \o (IF Len(items) > 1 THEN <<",">> ELSE <<>>) \o JsonItems(Tail(items))

\* whether Value's Serialize accepts the payload
Serializable(p) == p.t \in {"String", "Vec", "Unit"}

\* a serialisation that leaves a string as it is
to_json_plain(p) ==
    CASE p.t = "String" -> p.text
      [] p.t = "Vec" -> <<"[">> \o JsonItems(p.items) \o <<"]">>
      [] OTHER -> <<"null">>

\* serde_json::to_string of a serializable payload
to_json(p) ==
    CASE p.t = "String" -> JsonString(p.text)
      [] p.t = "Vec" -> <<"[">> \o JsonItems(p.items) \o <<"]">>
      [] OTHER -> <<"null">>

\* anyhow::Result<String>
Fine(text) == [ok |-> TRUE, text |-> text]
Thrown(text) == [ok |-> FALSE, text |-> text]

\* a stringification that does not look for io::Error objects
rune_value_stringify_io(p) ==
    IF p.t = "AnyhowError" THEN Thrown(p.text)
    ELSE IF p.t = "IoError" THEN Fine(JsonString(p.text))
    ELSE IF Serializable(p) THEN Fine(to_json(p))
    ELSE Thrown(<<"Unable to serialize value: ", p.t>>)

rune_value_throw_or_stringify(p) ==
    IF p.t = "AnyhowError" THEN Thrown(p.text)
    ELSE IF p.t = "IoError" THEN Thrown(p.text)
    ELSE IF Serializable(p) THEN Fine(to_json(p))
    ELSE Thrown(<<"Unable to serialize value: ", p.t>>)

\* anyhow::Result<Result<String, String>>
NoResult == [outer |-> "-", inner |-> "-", text |-> <<>>]
OkOk(text) == [outer |-> "Ok", inner |-> "Ok", text |-> text]
OkErr(text) == [outer |-> "Ok", inner |-> "Err", text |-> text]
OuterErr(text) == [outer |-> "Err", inner |-> "-", text |-> text]

\* `?` on the stringification, then the wrapping of the arm
Wrapped(s, arm) ==
    IF ~s.ok THEN OuterErr(s.text)
    ELSE IF arm = "Err" THEN OkErr(s.text) ELSE OkOk(s.text)

\* process_result that stringifies every error payload
process_result_quoting(value) == Wrapped(rune_value_throw_or_stringify(value.p), value.arm)

process_result(value) ==
    IF value.arm = "Ok" THEN Wrapped(rune_value_throw_or_stringify(value.p), "Ok")
    ELSE IF value.arm = "Err"
    THEN IF value.p.t = "String" THEN OkErr(value.p.text)
         ELSE Wrapped(rune_value_throw_or_stringify(value.p), "Err")
    ELSE Wrapped(rune_value_throw_or_stringify(value.p), "Ok")

\* the three classifications of an invocation
Outcome(r) ==
    IF r.outer = "Err" THEN "Faulted"
    ELSE IF r.inner = "Ok" THEN "Success"
    ELSE IF r.inner = "Err" THEN "Rejected"
    ELSE "-"

----------------------------------------------------------------------------
(* SandboxManager (sandbox.rs) *)

\* the id Uuid::new_v4() gives the invocation
FreshId == "uuid"

\* cleanup_sandbox: Ok after removing a registered id, Err otherwise
cleanup_sandbox(registered, id) ==
    IF id \in registered
    THEN [ret |-> "Ok", sandboxes |-> registered \ {id}]
    ELSE [ret |-> "Err", sandboxes |-> registered]

\* the ids callers name their sandboxes by
SandboxIds == {FreshId, "s1", "s2"}

\* how far the two Sandbox::new() of create_sandbox get: TempDir::new can
\* fail at the first (nothing is registered) or at the second (the id is
\* registered and the call still returns Err)
TempDirOutcomes == {"both", "first", "neither"}

\* create_sandbox: registers the id (replacing a sandbox it had) once the
\* first Sandbox::new() succeeded, and returns the second one
create_sandbox(registered, id, dirs) ==
    IF dirs = "neither" THEN [ret |-> "Err", sandboxes |-> registered]
    ELSE IF dirs = "first" THEN [ret |-> "Err", sandboxes |-> registered \cup {id}]
    ELSE [ret |-> "Ok", sandboxes |-> registered \cup {id}]

NoCall == [op |-> "none", ret |-> "-"]
Logged(calls, id, op, ret) == [calls EXCEPT ![id] = [op |-> op, ret |-> ret]]

----------------------------------------------------------------------------
(* The callers (main.rs) *)

NoResponse == [status |-> "-", ctype |-> "-", body |-> <<>>]

\* the match on the engine's result shared by the two HTTP handlers
http_response(r, fault_status) ==
    IF r.outer = "Ok"
    THEN IF r.inner = "Ok"
         THEN [status |-> "200", ctype |-> "application/json", body |-> r.text]
         ELSE [status |-> "200", ctype |-> "text/plain", body |-> r.text]
    ELSE [status |-> fault_status, ctype |-> "text/plain; charset=utf-8", body |-> r.text]

\* what a CLI command leaves: `?` returns the error from main, otherwise
\* format_result_output prints the text (parse = false)
cli_output(r) ==
    IF r.outer = "Err"
    THEN [status |-> "exit 1", ctype |-> "stderr", body |-> r.text]
    ELSE [status |-> "exit 0", ctype |-> "stdout", body |-> r.text]

----------------------------------------------------------------------------
(* The state machine: one invocation from a caller to its answer *)

Roots == {<<EMPTY, A>>, <<EMPTY, A, AB>>, <<AB>>, <<DOTDOT, AB>>}
Modes == {"run_collect", "run_check", "handle_collect", "handle_submit"}
CheckModes == {"run_check", "handle_submit"}
HttpModes == {"handle_collect", "handle_submit"}
Inputs == {<<>>, <<"x">>}

CompileDiagnostics == {<<"compile error: unexpected token">>, <<"failed to read configure.rn">>}
LookupFaults == {<<"missing entry">>, <<"bad argument count">>}
CallFaults == {<<"panicked">>}

NoOp == [op |-> "none", path |-> <<EMPTY>>, branch |-> "-", abs_path |-> <<EMPTY>>,
         value |-> Bare(UnitV)]

Op(name, path, r) ==
    [op |-> name, path |-> path, branch |-> r.branch, abs_path |-> r.abs_path,
     value |-> r.value]

\* the values a script can end its entry point with
ReturnValues ==
    {Bare(StringV(<<"ok">>)), Bare(StringV(input)), Bare(UnitV), Bare(FunctionV),
     Bare(AnyhowV(<<"boom">>)),
     OkV(StringV(<<"ok">>)), OkV(FunctionV),
     ErrV(StringV(<<"bad input">>)), ErrV(StringV(<<"say ", "\"", "no", "\"">>)),
     ErrV(VecV(<<<<"x">>>>)), ErrV(FunctionV), ErrV(AnyhowV(<<"boom">>))}
    \cup (IF lastOp.op = "none" THEN {} ELSE {lastOp.value, Bare(lastOp.value.p)})

\* a propagation that hands the fault over as the script's own error
propagate_as_error_arm(e) == OkErr(e)

\* `?` on compile_vm() and on vm.call(): the error leaves call_collect /
\* call_check as the outer Err
propagate(e) == OuterErr(e)

Init ==
    /\ root \in Roots
    /\ mode = "-"
    /\ input = <<>>
    /\ pc = "idle"
    /\ lastOp = NoOp
    /\ listed = <<>>
    /\ fault = "none"
    /\ returned = Bare(UnitV)
    /\ result = NoResult
    /\ invoked = FALSE
    /\ compiles = 0
    /\ cleanup = "none"
    /\ sandboxes = {}
    /\ lastCalls = [id \in SandboxIds |-> NoCall]
    /\ response = NoResponse

\* main dispatches a command, or axum routes a request
Start(m, inp) ==
    /\ pc = "idle"
    /\ mode' = m
    /\ input' = IF m \in CheckModes THEN inp ELSE <<>>
    /\ pc' = "compiling"
    /\ UNCHANGED <<root, lastOp, listed, fault, returned, result, invoked, compiles,
                   cleanup, sandboxes, lastCalls, response>>

\* compile_vm returns Err: context, source or build failed
CompileFails(d) ==
    /\ pc = "compiling"
    /\ compiles' = compiles + 1
    /\ fault' = "CompileError"
    /\ result' = propagate(d)
    /\ pc' = "returned"
    /\ UNCHANGED <<root, mode, input, lastOp, listed, returned, invoked, cleanup,
                   sandboxes, lastCalls, response>>

\* compile_vm returns the Vm
CompileSucceeds ==
    /\ pc = "compiling"
    /\ compiles' = compiles + 1
    /\ pc' = "ready"
    /\ UNCHANGED <<root, mode, input, lastOp, listed, fault, returned, result, invoked,
                   cleanup, sandboxes, lastCalls, response>>

\* vm.call fails before the entry point runs: no such function, or its
\* parameters do not take the argument tuple
LookupFails(e) ==
    /\ pc = "ready"
    /\ invoked' = TRUE
    /\ fault' = "InvocationFault"
    /\ result' = propagate(e)
    /\ pc' = "returned"
    /\ UNCHANGED <<root, mode, input, lastOp, listed, returned, compiles, cleanup,
                   sandboxes, lastCalls, response>>

\* vm.call enters the entry point with the Context of data_directory
EnterCall ==
    /\ pc = "ready"
    /\ invoked' = TRUE
    /\ pc' = "invoking"
    /\ UNCHANGED <<root, mode, input, lastOp, listed, fault, returned, result, compiles,
                   cleanup, sandboxes, lastCalls, response>>

\* A DataBucket holds nothing but its path, so one call's result does not
\* depend on the calls before it: a script is followed through one call
\* with a free path, and through the reads of the names a list gave it.

\* the script calls ctx.bucket().read(path)
BucketRead(path) ==
    /\ pc = "invoking" /\ lastOp.op = "none"
    /\ lastOp' = Op("read", path, read(root, path))
    /\ UNCHANGED <<root, mode, input, pc, listed, fault, returned, result, invoked,
                   compiles, cleanup, sandboxes, lastCalls, response>>

\* the script calls ctx.bucket().list(path)
BucketList(path) ==
    /\ pc = "invoking" /\ lastOp.op = "none"
    /\ LET r == list(root, path)
       IN  /\ lastOp' = Op("list", path, r)
           /\ listed' = IF r.branch = Returned THEN r.value.p.items ELSE listed
    /\ UNCHANGED <<root, mode, input, pc, fault, returned, result, invoked, compiles,
                   cleanup, sandboxes, lastCalls, response>>

\* the script passes the i-th name the list gave it to ctx.bucket().read
BucketReadListed(i) ==
    /\ pc = "invoking" /\ lastOp.op = "list" /\ lastOp.branch = Returned
    /\ i \in 1..Len(listed)
    /\ lastOp' = Op("read", <<listed[i]>>, read(root, <<listed[i]>>))
    /\ UNCHANGED <<root, mode, input, pc, listed, fault, returned, result, invoked,
                   compiles, cleanup, sandboxes, lastCalls, response>>

\* the entry point raises while running
ScriptFaults(e) ==
    /\ pc = "invoking"
    /\ fault' = "InvocationFault"
    /\ result' = propagate(e)
    /\ pc' = "returned"
    /\ lastOp' = NoOp
    /\ listed' = <<>>
    /\ UNCHANGED <<root, mode, input, returned, invoked, compiles, cleanup, sandboxes,
                   lastCalls, response>>

\* the entry point returns value, and process_result translates it
ScriptReturns(value) ==
    /\ pc = "invoking"
    /\ returned' = value
    /\ result' = process_result(value)
    /\ pc' = "returned"
    /\ lastOp' = NoOp
    /\ listed' = <<>>
    /\ UNCHANGED <<root, mode, input, fault, invoked, compiles, cleanup, sandboxes,
                   lastCalls, response>>

\* run_collect after call_collect
RunCollectFinish ==
    /\ pc = "returned" /\ mode = "run_collect"
    /\ response' = cli_output(result)
    /\ pc' = "done"
    /\ UNCHANGED <<root, mode, input, lastOp, listed, fault, returned, result, invoked,
                   compiles, cleanup, sandboxes, lastCalls>>

\* run_check after call_check: `?` leaves before the clean-up
RunCheckFinish ==
    /\ pc = "returned" /\ mode = "run_check"
    /\ IF result.outer = "Err"
       THEN UNCHANGED <<cleanup, sandboxes, lastCalls>>
       ELSE LET c == cleanup_sandbox(sandboxes, FreshId)
            IN  /\ cleanup' = c.ret /\ sandboxes' = c.sandboxes
                /\ lastCalls' = Logged(lastCalls, FreshId, "cleanup_sandbox", c.ret)
    /\ response' = cli_output(result)
    /\ pc' = "done"
    /\ UNCHANGED <<root, mode, input, lastOp, listed, fault, returned, result, invoked,
                   compiles>>

\* handle_collect after call_collect
HandleCollectFinish ==
    /\ pc = "returned" /\ mode = "handle_collect"
    /\ response' = http_response(result, "500")
    /\ pc' = "done"
    /\ UNCHANGED <<root, mode, input, lastOp, listed, fault, returned, result, invoked,
                   compiles, cleanup, sandboxes, lastCalls>>

\* handle_submit after call_check
HandleSubmitFinish ==
    /\ pc = "returned" /\ mode = "handle_submit"
    /\ LET c == cleanup_sandbox(sandboxes, FreshId)
       IN  /\ cleanup' = c.ret /\ sandboxes' = c.sandboxes
           /\ lastCalls' = Logged(lastCalls, FreshId, "cleanup_sandbox", c.ret)
    /\ response' = http_response(result, "400")
    /\ pc' = "done"
    /\ UNCHANGED <<root, mode, input, lastOp, listed, fault, returned, result, invoked,
                   compiles>>

Next ==
    \/ \E m \in Modes, inp \in Inputs : Start(m, inp)
    \/ \E d \in CompileDiagnostics : CompileFails(d)
    \/ CompileSucceeds
    \/ \E e \in LookupFaults : LookupFails(e)
    \/ EnterCall
    \/ \E path \in Paths : BucketRead(path)
    \/ \E path \in Paths : BucketList(path)
    \/ \E i \in 1..MaxEntries : BucketReadListed(i)
    \/ \E e \in CallFaults : ScriptFaults(e)
    \/ \E value \in ReturnValues : ScriptReturns(value)
    \/ RunCollectFinish
    \/ RunCheckFinish
    \/ HandleCollectFinish
    \/ HandleSubmitFinish

Spec == Init /\ [][Next]_vars

----------------------------------------------------------------------------
(* Properties *)

\* the components of a normalised path, read off the string: whether it
\* starts at '/', then its names
NamesOf(p) == <<is_absolute(p)>> \o SelectSeq(p, LAMBDA x : x # EMPTY)

ResolvedRoot == to_abs_pathbuf(root, NoContext)

Called == lastOp.op \in {"read", "list"}
Permitted == Called /\ lastOp.branch # NotAllowed

HasSeg(p, x) == \E i \in 1..Len(p) : p[i] = x

\* C1: read and list pass the security check only when the resolved path's
\* components have the resolved root's components as a prefix (or are
\* equal to them); a sibling whose name extends the root's name as a
\* string is not inside.
PermitOnlyWithinRoot ==
    Permitted => IsSeqPrefix(NamesOf(ResolvedRoot), NamesOf(lastOp.abs_path))

\* C1 witness: an absolute request with a ".." in it passed the check
PermitWitness == Permitted /\ is_absolute(lastOp.path) /\ HasSeg(lastOp.path, DOTDOT)

ClimbsFirst == lastOp.op = "read" /\ lastOp.path[1] = DOTDOT

\* C2 as stated: a read whose path starts with ".." is denied
ClimbingReadDenied == ClimbsFirst => lastOp.branch = NotAllowed

RECURSIVE DropLeadingParents(_)
DropLeadingParents(p) ==
    IF p = <<>> THEN <<EMPTY>>
    ELSE IF Head(p) = DOTDOT \/ Head(p) = EMPTY THEN DropLeadingParents(Tail(p))
    ELSE p

\* C2 amended: a read whose path starts with ".." is not denied; the
\* leading ".." (and the separators after them) are discarded, the path
\* resolves at or under the root, the read ends as the read of the rest of
\* the path does, and its answer is an ordinary Result value of the
\* script.
ClimbingReadClamped ==
    ClimbsFirst =>
        LET plain == read(root, DropLeadingParents(lastOp.path))
        IN  /\ lastOp.branch # NotAllowed
            /\ IsSeqPrefix(NamesOf(ResolvedRoot), NamesOf(lastOp.abs_path))
            /\ lastOp.branch = plain.branch
            /\ lastOp.abs_path = plain.abs_path
            /\ lastOp.value.arm \in {"Ok", "Err"}

\* C2 witness: "../../ab" was read and answered from under the root
ClimbingReadWitness ==
    /\ ClimbsFirst
    /\ lastOp.path = <<DOTDOT, DOTDOT, AB>>
    /\ root = <<EMPTY, A, AB>>
    /\ lastOp.abs_path = <<EMPTY, A, AB, AB>>

Finished == pc \in {"returned", "done"}
Answered == pc = "done"
ScriptReturned == Finished /\ fault = "none"

Occurs(t, body) ==
    t # <<>> /\ \E i \in 1..(Len(body) + 1 - Len(t)) : SubSeq(body, i, i + Len(t) - 1) = t

\* C3 as stated: the HTTP answer to a Faulted invocation does not carry
\* the fault's diagnostic text
FaultTextNotForwarded ==
    (Answered /\ mode \in HttpModes /\ Outcome(result) = "Faulted")
        => ~Occurs(result.text, response.body)

\* C4: every host fault (compile error, missing entry point, argument
\* mismatch, fault during the call) ends as Faulted, never Rejected or
\* Success; a compile error ends the invocation without vm.call and after
\* one compile_vm.
HostFaultIsFaulted ==
    /\ fault # "none" => (Finished /\ Outcome(result) = "Faulted")
    /\ fault = "CompileError" => (~invoked /\ compiles = 1)

\* C4 witness: a compile error was answered
HostFaultWitness == Answered /\ fault = "CompileError"

BareReturned == ScriptReturned /\ returned.arm = "Bare"

\* C5 as stated: a bare value always gives Success
BareAlwaysSuccess == BareReturned => Outcome(result) = "Success"

\* C5 amended: a bare value gives Success with its JSON serialization when
\* it is serializable (the bare string "ok" gives "\"ok\""), and Faulted,
\* never Rejected, when it is an error object or cannot be serialized.
BareSuccessWhenSerializable ==
    BareReturned =>
        /\ Serializable(returned.p)
            => (Outcome(result) = "Success" /\ result.text = to_json(returned.p))
        /\ ~Serializable(returned.p) => Outcome(result) = "Faulted"
        /\ returned.p = StringV(<<"ok">>) => result = OkOk(<<"\"", "ok", "\"">>)

\* C5 witness: check("") returned the bare string "ok" and was answered
BareOkWitness ==
    /\ Answered /\ BareReturned /\ mode = "handle_submit" /\ input = <<>>
    /\ returned.p = StringV(<<"ok">>)

ErrReturned == ScriptReturned /\ returned.arm = "Err"

\* C6: an error arm with a string payload gives Rejected with exactly that
\* text, not quoted and not escaped (any other serializable payload gives
\* Rejected with its serialization), and the HTTP handlers send the text
\* as the text/plain body.
RejectedCarriesExactText ==
    /\ (ErrReturned /\ returned.p.t = "String") => result = OkErr(returned.p.text)
    /\ (ErrReturned /\ returned.p.t = "Vec") => result = OkErr(to_json(returned.p))
    /\ (ErrReturned /\ Serializable(returned.p) /\ Answered /\ mode \in HttpModes)
        => response = [status |-> "200", ctype |-> "text/plain", body |-> result.text]

\* C6 witness: the error text with quotes in it was sent by handle_submit
RejectedWitness ==
    /\ Answered /\ ErrReturned /\ mode = "handle_submit"
    /\ returned.p = StringV(<<"say ", "\"", "no", "\"">>)

\* C7: an error arm whose payload is an internal-fault object (the
\* io::Error of a bucket call, an anyhow error) gives Faulted, never
\* Rejected.
InternalFaultPromoted ==
    (ErrReturned /\ returned.p.t \in {"IoError", "AnyhowError"})
        => Outcome(result) = "Faulted"

\* C7 witness: the io::Error of a denied read was returned and answered
InternalFaultWitness ==
    /\ Answered /\ ErrReturned
    /\ returned.p.t = "IoError" /\ returned.p.kind = "PermissionDenied"

ReadOfListed ==
    /\ lastOp.op = "read"
    /\ \E i \in 1..Len(listed) : lastOp.path = <<listed[i]>>

\* C8: the read of a name that a successful list returned (the empty
\* string of a non-UTF-8 name included) never ends NotAllowed.
ListedNamesReadable == ReadOfListed => lastOp.branch # NotAllowed

\* C8 witness: the empty name of a non-UTF-8 entry was read
ListedNamesWitness == ReadOfListed /\ lastOp.path = <<EMPTY>> /\ Len(listed) = 3

\* the safe path read hands to the security check
Denied(r, p) == ~security_path_within(normalize_path(p), r)

\* C9 as stated: denied gives NotAllowed; permitted and not a regular
\* existing file (a directory included) gives NotFound; IOFailure only for
\* a regular existing file whose read fails; a permitted readable file
\* gives its exact contents.
ReadFailureMapping ==
    lastOp.op = "read" =>
        LET n == OsNode(lastOp.abs_path)
        IN  /\ Denied(root, lastOp.path) <=> lastOp.branch = NotAllowed
            /\ (~Denied(root, lastOp.path) /\ n.kind # "file") => lastOp.branch = NotFound
            /\ lastOp.branch = IOFailure => (n.kind = "file" /\ ~n.readable)
            /\ (~Denied(root, lastOp.path) /\ n.kind = "file" /\ n.readable)
                => lastOp.value = OkV(StringV(n.text))

\* C10 as stated: a check invocation that has ended has run
\* cleanup_sandbox, on the CLI path and on the HTTP path, whatever the
\* outcome
ReleaseNeverSkipped == (Answered /\ mode \in CheckModes) => cleanup # "none"

\* the component names a request can use
Names == {A, AB}

\* the call lastOp records, made with another path
SameCall(path) == IF lastOp.op = "list" THEN list(root, path) ELSE read(root, path)

SameDecision(r) ==
    /\ lastOp.branch = r.branch
    /\ lastOp.abs_path = r.abs_path
    /\ lastOp.branch = Returned => lastOp.value = r.value

\* path with the name at i and the ".." after it replaced by one "."
Cancelled(path, i) == SubSeq(path, 1, i - 1) \o <<DOT>> \o SubSeq(path, i + 2, Len(path))

\* C11: read and list decide "a/../b" as they decide "b", with the same
\* resolved path; wherever a ".." follows a name, the two cancel each
\* other and nothing else of the path.
ParentCancelsName ==
    Called =>
        /\ \A a \in Names, b \in Names :
               lastOp.path = <<a, DOTDOT, b>> => SameDecision(SameCall(<<b>>))
        /\ \A i \in 1..(Len(lastOp.path) - 1) :
               (lastOp.path[i] \in Names /\ lastOp.path[i + 1] = DOTDOT)
                   => SameDecision(SameCall(Cancelled(lastOp.path, i)))

\* C11 witness: "ab/../a" was read and gave the file "a" of the root
ParentCancelsWitness ==
    /\ lastOp.op = "read" /\ lastOp.path = <<AB, DOTDOT, A>>
    /\ lastOp.branch = Returned /\ lastOp.value = read(root, <<A>>).value

----------------------------------------------------------------------------
(* The SandboxManager on its own: any caller, any order of calls *)

\* create_sandbox(id)
CreateSandbox(id, dirs) ==
    /\ pc = "idle"
    /\ LET c == create_sandbox(sandboxes, id, dirs)
       IN  /\ sandboxes' = c.sandboxes
           /\ lastCalls' = Logged(lastCalls, id, "create_sandbox", c.ret)
    /\ UNCHANGED <<root, mode, input, pc, lastOp, listed, fault, returned, result,
                   invoked, compiles, cleanup, response>>

\* cleanup_sandbox(id)
CleanupSandbox(id) ==
    /\ pc = "idle"
    /\ LET c == cleanup_sandbox(sandboxes, id)
       IN  /\ sandboxes' = c.sandboxes
           /\ cleanup' = c.ret
           /\ lastCalls' = Logged(lastCalls, id, "cleanup_sandbox", c.ret)
    /\ UNCHANGED <<root, mode, input, pc, lastOp, listed, fault, returned, result,
                   invoked, compiles, response>>

NextSandbox ==
    \/ \E id \in SandboxIds, dirs \in TempDirOutcomes : CreateSandbox(id, dirs)
    \/ \E id \in SandboxIds : CleanupSandbox(id)

SpecSandbox == Init /\ [][NextSandbox]_vars

\* C12 as stated: every release returns the successful result, the second
\* one and the one of an id never acquired included, and an id is
\* registered exactly when the last call on it was a create_sandbox that
\* registered it.
ReleaseIdempotent ==
    \A id \in SandboxIds :
        /\ lastCalls[id].op = "cleanup_sandbox"
            => (lastCalls[id].ret = "Ok" /\ id \notin sandboxes)
        /\ (lastCalls[id].op = "create_sandbox" /\ lastCalls[id].ret = "Ok")
            => id \in sandboxes
        /\ lastCalls[id].op = "none" => id \notin sandboxes

====
